---- MODULE Spec2Model ----
(***************************************************************************)
(* dnscheck: bulk DNS lookup tool (src/src/dnscheck.py).                   *)
(*                                                                         *)
(* Text is modelled as a sequence of one-character strings, so that        *)
(* strip(), lower(), upper(), replace(), join() and the regular            *)
(* expression ^v=spf are computed character by character.                  *)
(***************************************************************************)
EXTENDS Integers, Sequences, FiniteSets, TLC

VARIABLES
    argv,         \* the command line
    input_lines,  \* the records of the input file read so far
    pc,           \* position of main: start, loop, done, exit, crashed
    args,         \* the argparse namespace
    nameservers,  \* custom_resolver.nameservers
    dns_data,     \* the tables, one per kind
    queries,      \* log of the queries handed to the resolver
    processing,   \* hosts printed as "Processing:", i.e. given to process_domain
    workbook,     \* the file at the output path
    exit_status   \* process exit status, RUNNING until the process ends

vars == <<argv, input_lines, pc, args, nameservers, dns_data,
          queries, processing, workbook, exit_status>>

(***************************************************************************)
(* Bounds.                                                                 *)
(***************************************************************************)
MaxLines == 2

\* Python None for an optional str, list or pattern argument
None == <<>>

(***************************************************************************)
(* Python str primitives.                                                  *)
(***************************************************************************)
Uppers == <<"A","B","C","D","E","F","G","H","I","J","K","L","M",
            "N","O","P","Q","R","S","T","U","V","W","X","Y","Z">>
Lowers == <<"a","b","c","d","e","f","g","h","i","j","k","l","m",
            "n","o","p","q","r","s","t","u","v","w","x","y","z">>
DigitChars == <<"0","1","2","3","4","5","6","7","8","9">>

LowerChar(c) ==
    IF \E i \in 1..26 : Uppers[i] = c
    THEN Lowers[CHOOSE i \in 1..26 : Uppers[i] = c]
    ELSE c

UpperChar(c) ==
    IF \E i \in 1..26 : Lowers[i] = c
    THEN Uppers[CHOOSE i \in 1..26 : Lowers[i] = c]
    ELSE c

Lower(s) == [i \in 1..Len(s) |-> LowerChar(s[i])]

Upper(s) == [i \in 1..Len(s) |-> UpperChar(s[i])]

Replace(s, old, new) == [i \in 1..Len(s) |-> IF s[i] = old THEN new ELSE s[i]]

EndsWith(s, suffix) ==
    /\ Len(s) >= Len(suffix)
    /\ SubSeq(s, Len(s) - Len(suffix) + 1, Len(s)) = suffix

Whitespace == {" ", "\t", "\n", "\r"}

RECURSIVE LStripChars(_, _)
LStripChars(s, chars) ==
    IF s # <<>> /\ Head(s) \in chars THEN LStripChars(Tail(s), chars) ELSE s

RECURSIVE RStripChars(_, _)
RStripChars(s, chars) ==
    IF s # <<>> /\ s[Len(s)] \in chars
    THEN RStripChars(SubSeq(s, 1, Len(s) - 1), chars)
    ELSE s

StripChars(s, chars) == RStripChars(LStripChars(s, chars), chars)

Strip(s) == StripChars(s, Whitespace)

RECURSIVE Join(_, _)
Join(sep, parts) ==
    IF parts = <<>> THEN <<>>
    ELSE IF Len(parts) = 1 THEN parts[1]
    ELSE parts[1] \o sep \o Join(sep, Tail(parts))

RECURSIVE Split(_, _)
Split(s, sep) ==
    IF \E i \in 1..Len(s) : s[i] = sep
    THEN LET i == CHOOSE j \in 1..Len(s) :
                      s[j] = sep /\ \A k \in 1..(j - 1) : s[k] # sep
         IN  <<SubSeq(s, 1, i - 1)>> \o Split(SubSeq(s, i + 1, Len(s)), sep)
    ELSE <<s>>

IsDigit(s) ==
    /\ s # <<>>
    /\ \A i \in 1..Len(s) : \E d \in 1..10 : DigitChars[d] = s[i]

DigitValue(c) == (CHOOSE d \in 1..10 : DigitChars[d] = c) - 1

RECURSIVE ParseInt(_)
ParseInt(s) ==
    IF s = <<>> THEN 0
    ELSE 10 * ParseInt(SubSeq(s, 1, Len(s) - 1)) + DigitValue(s[Len(s)])

RECURSIVE FormatInt(_)
FormatInt(n) ==
    IF n < 10 THEN <<DigitChars[n + 1]>>
    ELSE FormatInt(n \div 10) \o <<DigitChars[(n % 10) + 1]>>


(***************************************************************************)
(* Module constants (lines 15-25).                                         *)
(***************************************************************************)
DATA_TYPE_DMARC == <<"D","M","A","R","C"," ","D","a","t","a">>
DATA_TYPE_SPF == <<"S","P","F"," ","D","a","t","a">>
DATA_TYPE_MX == <<"M","X"," ","D","a","t","a">>
DATA_TYPE_PTR == <<"P","T","R"," ","D","a","t","a">>
DATA_TYPE_A == <<"A"," ","D","a","t","a">>

\* re.compile(r'^v=spf', re.IGNORECASE): the literal prefix of the pattern
spf_pattern == <<"v","=","s","p","f">>

\* faulty variant: the pattern compiled without re.IGNORECASE
PatternMatch_CaseSensitive(pattern, text) ==
    /\ Len(text) >= Len(pattern)
    /\ SubSeq(text, 1, Len(pattern)) = pattern

\* pattern.match(text): anchored at the start, letters compared ignoring case
PatternMatch(pattern, text) ==
    /\ Len(text) >= Len(pattern)
    /\ Lower(SubSeq(text, 1, Len(pattern))) = Lower(pattern)

(***************************************************************************)
(* Argument validators (lines 27-47).                                      *)
(***************************************************************************)
XLSX_EXT == <<".","x","l","s","x">>

\* ipaddress.ip_address / dns.ipv4.inet_aton: four decimal octets, no
\* leading zeros, each at most 255
IsIPv4(text) ==
    LET parts == Split(text, ".")
    IN  /\ Len(parts) = 4
        /\ \A i \in 1..4 :
              /\ IsDigit(parts[i])
              /\ Len(parts[i]) <= 3
              /\ (Len(parts[i]) > 1 => parts[i][1] # "0")
              /\ ParseInt(parts[i]) <= 255

\* validate_file_path: the argument names a file that exists
validate_file_path(file) == file.exists

\* faulty variant: '.xlsx' in file_path.lower() instead of endswith
validate_xlsx_file_Contains(file_path) ==
    \E i \in 1..Len(file_path) :
        /\ i + Len(XLSX_EXT) - 1 <= Len(file_path)
        /\ SubSeq(Lower(file_path), i, i + Len(XLSX_EXT) - 1) = XLSX_EXT

\* validate_xlsx_file
validate_xlsx_file(file_path) == EndsWith(Lower(file_path), XLSX_EXT)

\* parse_ip_list: accepted iff ipaddress.ip_address does not raise
parse_ip_list(ip) == IsIPv4(ip)


(***************************************************************************)
(* The resolver's environment: a DNS zone fixture.  An outcome of          *)
(* custom_resolver.resolve is either an answer (a non-empty sequence of    *)
(* rdata) or a raised exception with its str().                            *)
(***************************************************************************)
BadByte == "0xff"

TXT(strings) == [rdtype |-> "TXT", strings |-> strings, exchange |-> <<>>, text |-> <<>>]
MX(pref, exchange) == [rdtype |-> "MX", strings |-> <<>>, exchange |-> exchange,
                       text |-> FormatInt(pref) \o <<" ">> \o exchange]
A(address) == [rdtype |-> "A", strings |-> <<>>, exchange |-> <<>>, text |-> address]
PTR(target) == [rdtype |-> "PTR", strings |-> <<>>, exchange |-> <<>>, text |-> target]

Answer(rdatas) == [ok |-> TRUE, answers |-> rdatas, error |-> <<>>]
Failure(msg) == [ok |-> FALSE, answers |-> <<>>, error |-> msg]

E_NXDOMAIN == <<"n","a","m","e"," ","d","o","e","s"," ","n","o","t"," ","e","x","i","s","t">>
E_NOANSWER == <<"n","o"," ","a","n","s","w","e","r">>
E_TIMEOUT == <<"t","i","m","e","d"," ","o","u","t">>
E_DECODE == <<"i","n","v","a","l","i","d"," ","u","t","f","-","8">>

HOST_A == <<"a",".","i","o">>
HOST_B == <<"b",".","i","o">>
HOST_C == <<"c",".","i","o">>
HOST_IP == <<"1",".","2",".","3",".","4">>
HOST_IP2 == <<"1","0",".","0",".","0",".","2","5","5">>

DMARC_PREFIX == <<"_","d","m","a","r","c",".">>
V4_ORIGIN == <<"i","n","-","a","d","d","r",".","a","r","p","a",".">>
REV_HOST_IP == <<"4",".","3",".","2",".","1",".","i","n","-","a","d","d","r",".","a","r","p","a",".">>
REV_HOST_IP2 == <<"2","5","5",".","0",".","0",".","1","0",".","i","n","-","a","d","d","r",".","a","r","p","a",".">>

\* custom_resolver.resolve(qname, rdtype) against the fixture
Resolve(qname, rdtype) ==
    CASE qname = DMARC_PREFIX \o HOST_A /\ rdtype = "TXT" ->
            Answer(<<TXT(<<<<"v","=","D","M","A","R","C","1">>>>)>>)
      [] qname = HOST_A /\ rdtype = "TXT" ->
            Answer(<<TXT(<<<<"u","=","1">>>>), TXT(<<<<"V","=","S","p","f","1">>, <<" ","-","a","l","l">>>>), TXT(<<<<"v","=","s","p","f","1"," ","~","a","l","l">>>>)>>)
      [] qname = HOST_A /\ rdtype = "MX" ->
            Answer(<<MX(10, <<"m","1",".","a",".","i","o",".">>), MX(20, <<"m","2",".","a",".","i","o",".">>)>>)
      [] qname = HOST_A /\ rdtype = "A" ->
            Answer(<<A(HOST_IP), A(HOST_IP2)>>)
      [] qname = DMARC_PREFIX \o HOST_B /\ rdtype = "TXT" ->
            Failure(E_NXDOMAIN)
      [] qname = HOST_B /\ rdtype = "TXT" ->
            Answer(<<TXT(<<<<"u","=","1">>>>)>>)
      [] qname = HOST_B /\ rdtype = "MX" ->
            Failure(E_NOANSWER)
      [] qname = HOST_B /\ rdtype = "A" ->
            Answer(<<A(HOST_IP2)>>)
      [] qname = DMARC_PREFIX \o HOST_C /\ rdtype = "TXT" ->
            Answer(<<TXT(<<<<"v","=","D","M","A","R","C","1">>>>), TXT(<<<<BadByte>>>>)>>)
      [] qname = HOST_C /\ rdtype = "TXT" ->
            Answer(<<TXT(<<<<"v","=","s","p","f","1"," ","~","a","l","l">>>>), TXT(<<<<"u","=","1">>, <<BadByte>>>>)>>)
      [] qname = HOST_C /\ rdtype = "MX" ->
            Answer(<<MX(5, <<"m","1",".","a",".","i","o",".">>)>>)
      [] qname = HOST_C /\ rdtype = "A" ->
            Failure(E_TIMEOUT)
      [] qname = REV_HOST_IP /\ rdtype = "PTR" ->
            Answer(<<PTR(<<"a",".","i","o",".">>)>>)
      [] qname = REV_HOST_IP2 /\ rdtype = "PTR" ->
            Failure(E_NXDOMAIN)
      [] OTHER -> Failure(E_NXDOMAIN)

(***************************************************************************)
(* get_record_text (lines 64-73).  The result is [raised, text]: decoding  *)
(* a TXT chunk that is not valid UTF-8 raises UnicodeDecodeError.          *)
(***************************************************************************)
\* chunk.decode('utf-8')
Decodable(chunk) == \A i \in 1..Len(chunk) : chunk[i] # BadByte

RECURSIVE Concat(_)
Concat(chunks) == IF chunks = <<>> THEN <<>> ELSE Head(chunks) \o Concat(Tail(chunks))

get_record_text(rdata) ==
    IF rdata.rdtype \in {"A", "CNAME", "PTR"}
    THEN [raised |-> FALSE, text |-> StripChars(rdata.text, {"."})]
    ELSE IF rdata.rdtype = "TXT"
    THEN IF \A i \in 1..Len(rdata.strings) : Decodable(rdata.strings[i])
         THEN [raised |-> FALSE, text |-> Concat(rdata.strings)]
         ELSE [raised |-> TRUE, text |-> E_DECODE]
    ELSE IF rdata.rdtype = "MX"
    THEN [raised |-> FALSE, text |-> StripChars(rdata.exchange, {"."})]
    ELSE [raised |-> FALSE, text |-> StripChars(rdata.text, {"."})]

(***************************************************************************)
(* dns_lookup (lines 50-61).                                               *)
(***************************************************************************)
\* faulty variant: the records decoded before the exception are kept
RECURSIVE LookupLoop_KeepPartial(_, _, _)
LookupLoop_KeepPartial(answers, pattern, records) ==
    IF answers = <<>> THEN records
    ELSE LET record_text == get_record_text(Head(answers))
         IN  IF record_text.raised THEN Append(records, record_text.text)
             ELSE IF pattern = None \/ PatternMatch(pattern, record_text.text)
             THEN LookupLoop_KeepPartial(Tail(answers), pattern, Append(records, record_text.text))
             ELSE LookupLoop_KeepPartial(Tail(answers), pattern, records)

\* lines 54-59: the loop over the answer; an exception from get_record_text
\* leaves the loop for the except clause, which discards `records`
RECURSIVE LookupLoop(_, _, _)
LookupLoop(answers, pattern, records) ==
    IF answers = <<>> THEN records
    ELSE LET record_text == get_record_text(Head(answers))
         IN  IF record_text.raised THEN <<record_text.text>>
             ELSE IF pattern = None \/ PatternMatch(pattern, record_text.text)
             THEN LookupLoop(Tail(answers), pattern, Append(records, record_text.text))
             ELSE LookupLoop(Tail(answers), pattern, records)

dns_lookup(qname, rdtype, pattern) ==
    LET answers == Resolve(qname, rdtype)
    IN  IF answers.ok THEN LookupLoop(answers.answers, pattern, <<>>)
        ELSE <<answers.error>>


(***************************************************************************)
(* dns_data: a dict in insertion order, modelled as the sequence of its    *)
(* items [name, max_cols, data].                                           *)
(***************************************************************************)
HasKey(d, name) == \E i \in 1..Len(d) : d[i].name = name

IndexOf(d, name) == CHOOSE i \in 1..Len(d) : d[i].name = name

\* dns_data.setdefault(name, {'max_cols': 0, 'data': []})
SetDefault(d, name) ==
    IF HasKey(d, name) THEN d
    ELSE Append(d, [name |-> name, max_cols |-> 0, data |-> <<>>])

\* faulty variant: max_cols follows the latest row instead of the widest
Max_Latest(a, b) == a

Max(a, b) == IF a >= b THEN a ELSE b

\* dns.reversename.from_address(host): raises dns.exception.SyntaxError
\* unless host is an IP address
Reversed(parts) == [i \in 1..Len(parts) |-> parts[Len(parts) + 1 - i]]

from_address(host) ==
    IF IsIPv4(host)
    THEN [raised |-> FALSE,
          name |-> Join(<<".">>, Reversed(Split(host, "."))) \o <<".">> \o V4_ORIGIN]
    ELSE [raised |-> TRUE, name |-> <<>>]

(***************************************************************************)
(* process_domain (lines 76-107).  st = [dns_data, queries, raised]:       *)
(* queries is the log of (qname, rdtype) handed to the resolver, raised    *)
(* tells that an exception left process_domain.                            *)
(***************************************************************************)
\* faulty variant: the row is inserted at the top of the table
LookupBlock_Prepend(st, name, qname, rdtype, pattern, host) ==
    LET d == SetDefault(st.dns_data, name)
        data == dns_lookup(qname, rdtype, pattern)
        i == IndexOf(d, name)
    IN  [st EXCEPT
           !.dns_data = [d EXCEPT ![i].max_cols = Max(Len(data), d[i].max_cols),
                                  ![i].data = << <<host>> \o data >> \o d[i].data],
           !.queries = Append(st.queries, [qname |-> qname, rdtype |-> rdtype])]

\* one block: setdefault, dns_lookup, max_cols update, append of the row
LookupBlock(st, name, qname, rdtype, pattern, host) ==
    LET d == SetDefault(st.dns_data, name)
        data == dns_lookup(qname, rdtype, pattern)
        i == IndexOf(d, name)
    IN  [st EXCEPT
           !.dns_data = [d EXCEPT ![i].max_cols = Max(Len(data), d[i].max_cols),
                                  ![i].data = Append(d[i].data, <<host>> \o data)],
           !.queries = Append(st.queries, [qname |-> qname, rdtype |-> rdtype])]

\* lines 102-107: from_address is called after setdefault and outside any try
ReverseBlock(st, host) ==
    LET reversed_ip == from_address(host)
    IN  IF reversed_ip.raised
        THEN [st EXCEPT !.dns_data = SetDefault(st.dns_data, DATA_TYPE_PTR),
                        !.raised = TRUE]
        ELSE LookupBlock(st, DATA_TYPE_PTR, reversed_ip.name, "PTR", None, host)

process_domain(host, a, d, q) ==
    LET st0 == [dns_data |-> d, queries |-> q, raised |-> FALSE]
        st1 == IF a.dmarc_flag
               THEN LookupBlock(st0, DATA_TYPE_DMARC, DMARC_PREFIX \o host, "TXT", None, host)
               ELSE st0
        st2 == IF a.spf_flag
               THEN LookupBlock(st1, DATA_TYPE_SPF, host, "TXT", spf_pattern, host)
               ELSE st1
        st3 == IF a.mx_flag
               THEN LookupBlock(st2, DATA_TYPE_MX, host, "MX", None, host)
               ELSE st2
        st4 == IF a.a_flag
               THEN LookupBlock(st3, DATA_TYPE_A, host, "A", None, host)
               ELSE st3
    IN  IF a.reverse_flag THEN ReverseBlock(st4, host) ELSE st4


(***************************************************************************)
(* Report writers (lines 110-156).  A workbook is the sequence of its      *)
(* worksheets; a worksheet is [name, rows], rows[1] being spreadsheet row  *)
(* 0 and rows[r][1] column 0; a cell is [value, format].                   *)
(***************************************************************************)
HOST_IP_HEADER == <<"H","o","s","t","/","I","P">>

Cell(value, format) == [value |-> value, format |-> format]

\* name.upper().replace(' ', '_')
HeaderName(name) == Replace(Upper(name), " ", "_")

\* faulty variant: worksheets named by the header name instead of the label
write_to_excel_HeaderNamed(d) ==
    [k \in 1..Len(d) |->
        [name |-> HeaderName(d[k].name),
         rows |->
            <<  <<Cell(HOST_IP_HEADER, "bold")>> \o
                [i \in 1..d[k].max_cols |->
                    Cell(HeaderName(d[k].name) \o <<"_">> \o FormatInt(i - 1), "bold")]  >>
            \o [r \in 1..Len(d[k].data) |->
                    [c \in 1..Len(d[k].data[r]) |-> Cell(d[k].data[r][c], "none")]]]]

write_to_excel(d) ==
    [k \in 1..Len(d) |->
        [name |-> d[k].name,
         rows |->
            <<  <<Cell(HOST_IP_HEADER, "bold")>> \o
                [i \in 1..d[k].max_cols |->
                    Cell(HeaderName(d[k].name) \o <<"_">> \o FormatInt(i - 1), "bold")]  >>
            \o [r \in 1..Len(d[k].data) |->
                    [c \in 1..Len(d[k].data[r]) |-> Cell(d[k].data[r][c], "none")]]]]

\* faulty variant: the join starts at row_data[0], the host
write_to_excel_compact_WholeRow(d) ==
    [k \in 1..Len(d) |->
        [name |-> d[k].name,
         rows |->
            <<  <<Cell(HOST_IP_HEADER, "bold"), Cell(HeaderName(d[k].name), "bold")>>  >>
            \o [r \in 1..Len(d[k].data) |->
                    <<Cell(d[k].data[r][1], "none"),
                      Cell(Join(<<"\n">>, d[k].data[r]), "text_wrap")>>]]]

write_to_excel_compact(d) ==
    [k \in 1..Len(d) |->
        [name |-> d[k].name,
         rows |->
            <<  <<Cell(HOST_IP_HEADER, "bold"), Cell(HeaderName(d[k].name), "bold")>>  >>
            \o [r \in 1..Len(d[k].data) |->
                    <<Cell(d[k].data[r][1], "none"),
                      Cell(Join(<<"\n">>, Tail(d[k].data[r])), "text_wrap")>>]]]

(***************************************************************************)
(* main (lines 159-217).                                                   *)
(***************************************************************************)
RUNNING == -1
DEFAULT_HOST_FIELD == <<"D","o","m","a","i","n">>
SYSTEM_NAMESERVERS == <<<<"1","2","7",".","0",".","0",".","5","3">>>>

OUT_XLSX == <<"r",".","X","L","S","X">>
OUT_CSV == <<"r",".","x","l","s","x",".","c","s","v">>
NS_GOOD == <<"8",".","8",".","8",".","8">>
NS_BAD == <<"n","o","t","-","a","n","-","i","p">>

\* the command lines considered; given = FALSE is the bare command
ArgvSet ==
    [given : {TRUE},
     input_file : [exists : BOOLEAN],
     input_type : {"csv", "txt"},
     host_field : {None, DEFAULT_HOST_FIELD},
     ns : {None, <<NS_GOOD>>, <<NS_GOOD, NS_BAD>>},
     dmarc_flag : BOOLEAN, spf_flag : BOOLEAN, mx_flag : BOOLEAN,
     a_flag : BOOLEAN, reverse_flag : BOOLEAN, compact_flag : BOOLEAN,
     output_file : {OUT_XLSX, OUT_CSV}]
    \cup
    [given : {FALSE},
     input_file : [exists : {FALSE}],
     input_type : {"csv"},
     host_field : {None},
     ns : {None},
     dmarc_flag : {FALSE}, spf_flag : {FALSE}, mx_flag : {FALSE},
     a_flag : {FALSE}, reverse_flag : {FALSE}, compact_flag : {FALSE},
     output_file : {None}]

\* the records a file can hold: blank ones, hosts with and without
\* surrounding whitespace, IP addresses
Lines == {<<>>,
          <<" ","\t","\n">>,
          <<" ","a",".","i","o"," ">>,
          <<"b",".","i","o","\n">>,
          <<"c",".","i","o">>,
          <<"1",".","2",".","3",".","4">>,
          <<"1","0",".","0",".","0",".","2","5","5"," ">>}

Init ==
    /\ argv \in ArgvSet
    /\ input_lines = <<>>
    /\ pc = "start"
    /\ args = argv
    /\ nameservers = SYSTEM_NAMESERVERS
    /\ dns_data = <<>>
    /\ queries = <<>>
    /\ processing = <<>>
    /\ workbook = [exists |-> FALSE, sheets |-> <<>>]
    /\ exit_status = RUNNING

\* lines 181-183
Usage ==
    /\ pc = "start"
    /\ ~argv.given
    /\ pc' = "exit"
    /\ exit_status' = 1
    /\ UNCHANGED <<argv, input_lines, args, nameservers, dns_data, queries,
                   processing, workbook>>

\* parser.parse_args(): a type= validator that raises ArgumentTypeError
ParseFails(a) ==
    \/ ~validate_file_path(a.input_file)
    \/ \E i \in 1..Len(a.ns) : ~parse_ip_list(a.ns[i])
    \/ ~validate_xlsx_file(a.output_file)

\* lines 187-188
WithDefaultField(a) ==
    IF a.input_type = "csv" /\ a.host_field = None
    THEN [a EXCEPT !.host_field = DEFAULT_HOST_FIELD]
    ELSE a

\* line 190
FieldConflict(a) == a.input_type # "csv" /\ a.host_field # None

\* lines 185-191, argparse error: message on stderr, exit status 2
ConfigError ==
    /\ pc = "start"
    /\ argv.given
    /\ ParseFails(argv) \/ FieldConflict(WithDefaultField(argv))
    /\ pc' = "exit"
    /\ exit_status' = 2
    /\ UNCHANGED <<argv, input_lines, args, nameservers, dns_data, queries,
                   processing, workbook>>

\* lines 185-203: arguments accepted, resolver configured, input file opened
Configure ==
    /\ pc = "start"
    /\ argv.given
    /\ ~ParseFails(argv)
    /\ ~FieldConflict(WithDefaultField(argv))
    /\ args' = WithDefaultField(argv)
    /\ nameservers' = IF argv.ns # None THEN argv.ns ELSE nameservers
    /\ dns_data' = <<>>
    /\ pc' = "loop"
    /\ UNCHANGED <<argv, input_lines, queries, processing, workbook, exit_status>>

\* faulty variant: the record is used without strip()
HostOf_Unstripped(a, line) ==
    IF a.input_type = "csv"
    THEN (DEFAULT_HOST_FIELD :> line)[a.host_field]
    ELSE line

\* line 206: the host read from one record
HostOf(a, line) ==
    IF a.input_type = "csv"
    THEN Strip((DEFAULT_HOST_FIELD :> line)[a.host_field])
    ELSE Strip(line)

\* lines 205-210: one iteration of the loop over the reader
ReadLine(line) ==
    /\ pc = "loop"
    /\ Len(input_lines) < MaxLines
    /\ input_lines' = Append(input_lines, line)
    /\ LET host == HostOf(args, line)
       IN  IF host = <<>>
           THEN UNCHANGED <<pc, dns_data, queries, processing, exit_status>>
           ELSE LET st == process_domain(host, args, dns_data, queries)
                IN  /\ processing' = Append(processing, host)
                    /\ dns_data' = st.dns_data
                    /\ queries' = st.queries
                    /\ pc' = IF st.raised THEN "crashed" ELSE pc
                    /\ exit_status' = IF st.raised THEN 1 ELSE exit_status
    /\ UNCHANGED <<argv, args, nameservers, workbook>>

\* lines 212-217: end of file reached, the report is written
WriteReport ==
    /\ pc = "loop"
    /\ workbook' = [exists |-> TRUE,
                    sheets |-> IF args.compact_flag
                               THEN write_to_excel_compact(dns_data)
                               ELSE write_to_excel(dns_data)]
    /\ pc' = "done"
    /\ exit_status' = 0
    /\ UNCHANGED <<argv, input_lines, args, nameservers, dns_data, queries, processing>>

Next ==
    \/ Usage
    \/ ConfigError
    \/ Configure
    \/ \E line \in Lines : ReadLine(line)
    \/ WriteReport

Spec == Init /\ [][Next]_vars


(***************************************************************************)
(* Vocabulary of the properties, stated without the operators above.       *)
(***************************************************************************)
IsBlankLine(line) == \A i \in 1..Len(line) : line[i] \in Whitespace

\* t is line without its leading and trailing whitespace
IsTrimOf(t, line) ==
    /\ t # <<>>
    /\ t[1] \notin Whitespace
    /\ t[Len(t)] \notin Whitespace
    /\ \E i \in 1..Len(line) :
          /\ i + Len(t) - 1 <= Len(line)
          /\ SubSeq(line, i, i + Len(t) - 1) = t
          /\ \A j \in 1..Len(line) : (j < i \/ j > i + Len(t) - 1) => line[j] \in Whitespace

NonBlank(lines) == SelectSeq(lines, LAMBDA l : ~IsBlankLine(l))

EnabledLabels(a) ==
    (IF a.dmarc_flag THEN {DATA_TYPE_DMARC} ELSE {}) \cup
    (IF a.spf_flag THEN {DATA_TYPE_SPF} ELSE {}) \cup
    (IF a.mx_flag THEN {DATA_TYPE_MX} ELSE {}) \cup
    (IF a.a_flag THEN {DATA_TYPE_A} ELSE {}) \cup
    (IF a.reverse_flag THEN {DATA_TYPE_PTR} ELSE {})

TableNames == {dns_data[k].name : k \in 1..Len(dns_data)}

Table(name) == dns_data[CHOOSE k \in 1..Len(dns_data) : dns_data[k].name = name]

\* the hosts in column 0 of a table, top to bottom
HostColumn(t) == [r \in 1..Len(t.data) |-> t.data[r][1]]

IsPrefix(s, t) == Len(s) <= Len(t) /\ SubSeq(t, 1, Len(s)) = s

\* a dotted quad, spelled out
LooksLikeIp(host) == host \in {HOST_IP, HOST_IP2}

(***************************************************************************)
(* C1: with the PTR kind enabled, a host that is not an IP address does    *)
(* not crash the run: the PTR table gets the row [host, diagnostic].       *)
(***************************************************************************)
C1_NonIpReverseGivesDiagnosticRow ==
    \A i \in 1..Len(processing) :
        (args.reverse_flag /\ ~LooksLikeIp(processing[i])) =>
            /\ pc # "crashed"
            /\ DATA_TYPE_PTR \in TableNames
            /\ Len(Table(DATA_TYPE_PTR).data) >= i
            /\ Len(Table(DATA_TYPE_PTR).data[i]) = 2
            /\ Table(DATA_TYPE_PTR).data[i][1] = processing[i]

(***************************************************************************)
(* C2: no failure for one (host, kind) pair aborts the run: while the loop *)
(* runs and after it, every enabled kind's table holds exactly one row per *)
(* non-blank host read so far, and the run never ends in a traceback.      *)
(***************************************************************************)
C2_NoLookupFailureAborts ==
    /\ pc # "crashed"
    /\ pc \in {"loop", "done"} =>
          \A name \in EnabledLabels(args) :
              NonBlank(input_lines) # <<>> =>
                  /\ name \in TableNames
                  /\ Len(Table(name).data) = Len(NonBlank(input_lines))
    /\ pc = "done" => workbook.exists

(***************************************************************************)
(* C3: in every table, every row's tail is at most max_cols long and       *)
(* max_cols is the longest tail of the table.                              *)
(***************************************************************************)
TailLengths(t) == {Len(t.data[r]) - 1 : r \in 1..Len(t.data)}

C3_MaxColsIsLongestTail ==
    \A k \in 1..Len(dns_data) :
        /\ \A n \in TailLengths(dns_data[k]) : n <= dns_data[k].max_cols
        /\ \/ dns_data[k].max_cols \in TailLengths(dns_data[k])
           \/ dns_data[k].max_cols = 0 /\ dns_data[k].data = <<>>

\* a table whose rows differ in width, the widest one first
C3_Witness ==
    \E k \in 1..Len(dns_data) :
        /\ Len(dns_data[k].data) >= 2
        /\ Len(dns_data[k].data[1]) = 3
        /\ Len(dns_data[k].data[2]) = 2
        /\ dns_data[k].max_cols = 2

(***************************************************************************)
(* C4: a blank record yields no row and no query; only trimmed, non-empty  *)
(* hosts reach process_domain.                                             *)
(***************************************************************************)
NumEnabled(a) == Cardinality(EnabledLabels(a))

C4_BlankEntriesAreSkipped ==
    /\ Len(processing) = Len(NonBlank(input_lines))
    /\ \A j \in 1..Len(processing) : IsTrimOf(processing[j], NonBlank(input_lines)[j])
    /\ \A k \in 1..Len(dns_data) :
          /\ Len(dns_data[k].data) <= Len(NonBlank(input_lines))
          /\ \A r \in 1..Len(dns_data[k].data) : ~IsBlankLine(dns_data[k].data[r][1])
    /\ Len(queries) <= NumEnabled(args) * Len(NonBlank(input_lines))
    /\ (\A i \in 1..Len(input_lines) : IsBlankLine(input_lines[i])) =>
          dns_data = <<>> /\ queries = <<>>

\* a blank record and a host with surrounding whitespace, report written
C4_Witness ==
    /\ pc = "done"
    /\ Len(input_lines) >= 2
    /\ \E i \in 1..Len(input_lines) : IsBlankLine(input_lines[i])
    /\ \E i \in 1..Len(input_lines) : input_lines[i] # <<>> /\ ~IsBlankLine(input_lines[i])
                                       /\ input_lines[i][1] \in Whitespace
    /\ queries # <<>>

(***************************************************************************)
(* C5: the written workbook has exactly one worksheet per kind that        *)
(* received a row, named by the kind's label, and no other; the writer     *)
(* finds no table without rows.                                            *)
(***************************************************************************)
SheetNames == {workbook.sheets[k].name : k \in 1..Len(workbook.sheets)}

ExpandedTail(row) == [c \in 1..(Len(row) - 1) |-> row[c + 1].value]

LayoutsAgree(expanded, compact) ==
    /\ Len(expanded) = Len(compact)
    /\ \A k \in 1..Len(expanded) :
          /\ expanded[k].name = compact[k].name
          /\ Len(expanded[k].rows) = Len(compact[k].rows)
          /\ \A r \in 2..Len(expanded[k].rows) :
                /\ compact[k].rows[r][1].value = expanded[k].rows[r][1].value
                /\ Len(compact[k].rows[r]) = 2
                /\ compact[k].rows[r][2].value =
                      Join(<<"\n">>, ExpandedTail(expanded[k].rows[r]))

C6_CompactIsJoinOfExpanded ==
    /\ LayoutsAgree(write_to_excel(dns_data), write_to_excel_compact(dns_data))
    /\ pc = "done" =>
          IF args.compact_flag
          THEN LayoutsAgree(write_to_excel(dns_data), workbook.sheets)
          ELSE LayoutsAgree(workbook.sheets, write_to_excel_compact(dns_data))

\* a compact workbook with a cell joined from two records
C6_Witness ==
    /\ pc = "done"
    /\ args.compact_flag
    /\ \E k \in 1..Len(workbook.sheets) :
          /\ workbook.sheets[k].name = DATA_TYPE_MX
          /\ Len(workbook.sheets[k].rows) >= 2
          /\ workbook.sheets[k].rows[2][2].value = <<"m","1",".","a",".","i","o","\n","m","2",".","a",".","i","o">>

(***************************************************************************)
(* C7: a configuration error ends the run with a non-zero status before    *)
(* any query, any row, any read of the input and any workbook.             *)
(***************************************************************************)
BadConfig(a) ==
    /\ a.given
    /\ \/ a.input_type = "txt" /\ a.host_field = DEFAULT_HOST_FIELD
       \/ a.ns = <<NS_GOOD, NS_BAD>>
       \/ a.output_file = OUT_CSV
       \/ ~a.input_file.exists

C7_ConfigErrorsBeforeAnyLookup ==
    BadConfig(argv) =>
        /\ pc \in {"start", "exit"}
        /\ pc = "exit" => exit_status \notin {0, RUNNING}
        /\ queries = <<>>
        /\ dns_data = <<>>
        /\ input_lines = <<>>
        /\ ~workbook.exists

\* the run was ended by the output path alone
C7_Witness ==
    /\ pc = "exit"
    /\ exit_status = 2
    /\ argv.output_file = OUT_CSV
    /\ argv.input_file.exists
    /\ argv.ns = <<NS_GOOD>>
    /\ argv.input_type = "csv"

(***************************************************************************)
(* C8: when the query or the decoding of a record fails, dns_lookup        *)
(* returns exactly the failure description, with or without a filter, and  *)
(* the row of that lookup has this single field.                           *)
(***************************************************************************)
HasBadChunk(rdata) ==
    \E i \in 1..Len(rdata.strings) : \E j \in 1..Len(rdata.strings[i]) :
        rdata.strings[i][j] = BadByte

QueryFails(qname, rdtype) ==
    LET r == Resolve(qname, rdtype)
    IN  ~r.ok \/ \E i \in 1..Len(r.answers) : HasBadChunk(r.answers[i])

FailureText(qname, rdtype) ==
    LET r == Resolve(qname, rdtype) IN IF r.ok THEN E_DECODE ELSE r.error

\* the query name process_domain builds for a kind and a host
QNameFor(name, host) ==
    IF name = DATA_TYPE_DMARC THEN DMARC_PREFIX \o host
    ELSE IF name = DATA_TYPE_PTR
    THEN (IF host = HOST_IP THEN REV_HOST_IP ELSE REV_HOST_IP2)
    ELSE host

RdTypeFor(name) ==
    IF name \in {DATA_TYPE_DMARC, DATA_TYPE_SPF} THEN "TXT"
    ELSE IF name = DATA_TYPE_MX THEN "MX"
    ELSE IF name = DATA_TYPE_A THEN "A"
    ELSE "PTR"

C8_FailureIsSingleDiagnostic ==
    /\ \A i \in 1..Len(queries) :
          QueryFails(queries[i].qname, queries[i].rdtype) =>
              \A p \in {None, spf_pattern} :
                  dns_lookup(queries[i].qname, queries[i].rdtype, p)
                      = <<FailureText(queries[i].qname, queries[i].rdtype)>>
    /\ \A k \in 1..Len(dns_data) : \A r \in 1..Len(dns_data[k].data) :
          LET row == dns_data[k].data[r]
              qname == QNameFor(dns_data[k].name, row[1])
              rdtype == RdTypeFor(dns_data[k].name)
          IN  QueryFails(qname, rdtype) => Tail(row) = <<FailureText(qname, rdtype)>>

\* a filtered lookup whose second record does not decode, and a failed query
C8_Witness ==
    /\ DATA_TYPE_SPF \in TableNames
    /\ DATA_TYPE_A \in TableNames
    /\ Table(DATA_TYPE_SPF).data = << <<HOST_C, E_DECODE>> >>
    /\ Table(DATA_TYPE_A).data = << <<HOST_C, E_TIMEOUT>> >>

(***************************************************************************)
(* C9: a successful lookup with a filter returns the decoded records that  *)
(* match, in answer order; the SPF row keeps the TXT strings starting with *)
(* v=spf in any letter case, possibly none.                                *)
(***************************************************************************)
StartsWithVSpf(text) ==
    /\ Len(text) >= 5
    /\ text[1] \in {"v", "V"}
    /\ text[2] = "="
    /\ text[3] \in {"s", "S"}
    /\ text[4] \in {"p", "P"}
    /\ text[5] \in {"f", "F"}

Decoded(qname, rdtype) ==
    LET r == Resolve(qname, rdtype)
    IN  [i \in 1..Len(r.answers) |-> get_record_text(r.answers[i]).text]

C9_FilterKeepsMatchingRecords ==
    /\ \A i \in 1..Len(queries) :
          ~QueryFails(queries[i].qname, queries[i].rdtype) =>
              /\ dns_lookup(queries[i].qname, queries[i].rdtype, spf_pattern)
                    = SelectSeq(Decoded(queries[i].qname, queries[i].rdtype), StartsWithVSpf)
              /\ dns_lookup(queries[i].qname, queries[i].rdtype, None)
                    = Decoded(queries[i].qname, queries[i].rdtype)
    /\ DATA_TYPE_SPF \in TableNames =>
          \A r \in 1..Len(Table(DATA_TYPE_SPF).data) :
              LET row == Table(DATA_TYPE_SPF).data[r]
              IN  ~QueryFails(row[1], "TXT") =>
                      Tail(row) = SelectSeq(Decoded(row[1], "TXT"), StartsWithVSpf)

\* one host keeps two of three TXT strings, the other none
C9_Witness ==
    /\ DATA_TYPE_SPF \in TableNames
    /\ Table(DATA_TYPE_SPF).data =
          << <<HOST_A, <<"V","=","S","p","f","1"," ","-","a","l","l">>, <<"v","=","s","p","f","1"," ","~","a","l","l">>>>, <<HOST_B>> >>

(***************************************************************************)
(* C10: column 0 of every row is the trimmed host of the record that       *)
(* produced it, rows follow the order of the input, and a step only        *)
(* appends rows: tables and rows already there stay as they are.           *)
(***************************************************************************)
RowsFollowInput ==
    \A k \in 1..Len(dns_data) : \A r \in 1..Len(dns_data[k].data) :
        /\ r <= Len(NonBlank(input_lines))
        /\ IsTrimOf(dns_data[k].data[r][1], NonBlank(input_lines)[r])

AppendOnly ==
    \A k \in 1..Len(dns_data) :
        /\ k <= Len(dns_data')
        /\ dns_data'[k].name = dns_data[k].name
        /\ IsPrefix(dns_data[k].data, dns_data'[k].data)

C10_RowsKeepHostAndOrder == [](RowsFollowInput) /\ [][AppendOnly]_vars

C10_Witness ==
    /\ DATA_TYPE_DMARC \in TableNames
    /\ Len(input_lines) >= 2
    /\ input_lines[1] # HOST_A
    /\ HostColumn(Table(DATA_TYPE_DMARC)) = <<HOST_A, HOST_IP2>>

====
